---- MODULE Spec2Model ----
(***************************************************************************)
(* Model of the weather service: the /weather request handler              *)
(* (api.WeatherHandler), the NOAA orchestrator                             *)
(* (weather.GetWeatherFromNOAA, getGridpoint, determineStatus) and the     *)
(* transport helper (httpclient.MakeRequest).                              *)
(*                                                                         *)
(* One request is in flight at a time: the handler shares no state between *)
(* requests, so concurrent requests are independent copies of this         *)
(* machine.  The handler blocks at each upstream GET; the model has one    *)
(* action per blocking segment of the handler.                             *)
(*                                                                         *)
(* float64 values are modelled as exact rationals num/den plus the three   *)
(* non-finite values; binary rounding of float64 is not modelled, and the  *)
(* inputs are chosen so that no decimal rounding tie arises.               *)
(***************************************************************************)
EXTENDS Integers, Sequences, FiniteSets, TLC

(***************************************************************************)
(* float64                                                                 *)
(***************************************************************************)
Fin(n, d) == [kind |-> "fin", num |-> n, den |-> d]

NaN == [kind |-> "nan", num |-> 0, den |-> 1]

PosInf == [kind |-> "pinf", num |-> 0, den |-> 1]

NegInf == [kind |-> "ninf", num |-> 0, den |-> 1]

\* a < b on float64: false whenever an operand is NaN
FLt(a, b) ==
    IF a.kind = "nan" \/ b.kind = "nan" THEN FALSE
    ELSE IF a.kind = "pinf" \/ b.kind = "ninf" THEN FALSE
    ELSE IF a.kind = "ninf" \/ b.kind = "pinf" THEN TRUE
    ELSE a.num * b.den < b.num * a.den

\* a > b on float64
FGt(a, b) == FLt(b, a)

\* a * b, a / b, a + b on finite values (den > 0 is kept)
FMul(a, b) == Fin(a.num * b.num, a.den * b.den)

FDiv(a, b) ==
    IF b.num > 0 THEN Fin(a.num * b.den, a.den * b.num)
    ELSE Fin(-(a.num * b.den), a.den * (-b.num))

FAdd(a, b) == Fin(a.num * b.den + b.num * a.den, a.den * b.den)

RECURSIVE Pow10(_)
Pow10(k) == IF k = 0 THEN 1 ELSE 10 * Pow10(k - 1)

Abs(n) == IF n < 0 THEN -n ELSE n

(***************************************************************************)
(* strconv.ParseFloat(s, 64), on strings given as sequences of characters. *)
(* Modelled grammar: the special values ("nan" unsigned, "inf"/"infinity"  *)
(* with an optional sign, any letter case) and decimal numbers             *)
(* [+-]digits[.digits] with at least one digit.  Exponents, hexadecimal    *)
(* forms and underscores are outside the alphabet of the inputs.           *)
(***************************************************************************)
Digits == <<"0", "1", "2", "3", "4", "5", "6", "7", "8", "9">>

IsDigit(c) == \E i \in 1..10 : Digits[i] = c

DigitVal(c) == (CHOOSE i \in 1..10 : Digits[i] = c) - 1

Lower(c) ==
    CASE c = "N" -> "n" [] c = "A" -> "a" [] c = "I" -> "i" [] c = "F" -> "f"
      [] c = "T" -> "t" [] c = "Y" -> "y" [] OTHER -> c

LowerSeq(s) == [i \in 1..Len(s) |-> Lower(s[i])]

IsSign(c) == c = "+" \/ c = "-"

\* strconv special(): the whole string is a spelling of NaN or an infinity
Special(s) ==
    LET signed == Len(s) > 0 /\ IsSign(s[1])
        rest   == LowerSeq(IF signed THEN Tail(s) ELSE s)
        isInf  == rest = <<"i", "n", "f">>
                  \/ rest = <<"i", "n", "f", "i", "n", "i", "t", "y">>
    IN  IF isInf
        THEN [ok |-> TRUE, val |-> IF signed /\ s[1] = "-" THEN NegInf ELSE PosInf]
        ELSE IF ~signed /\ rest = <<"n", "a", "n">>
        THEN [ok |-> TRUE, val |-> NaN]
        ELSE [ok |-> FALSE, val |-> NaN]

\* the digits of s read as a decimal integer
RECURSIVE DigitsVal(_)
DigitsVal(s) ==
    IF s = <<>> THEN 0
    ELSE 10 * DigitsVal(SubSeq(s, 1, Len(s) - 1)) + DigitVal(s[Len(s)])

\* strconv readFloat(), decimal without exponent
ReadFloat(s) ==
    LET signed == Len(s) > 0 /\ IsSign(s[1])
        body   == IF signed THEN Tail(s) ELSE s
        dots   == {i \in 1..Len(body) : body[i] = "."}
        wellFormed ==
            /\ Cardinality(dots) <= 1
            /\ \A i \in 1..Len(body) : IsDigit(body[i]) \/ body[i] = "."
            /\ \E i \in 1..Len(body) : IsDigit(body[i])
        mant   == SelectSeq(body, IsDigit)
        fracLen == IF dots = {} THEN 0
                   ELSE Len(body) - (CHOOSE i \in dots : TRUE)
        n      == DigitsVal(mant)
    IN  IF wellFormed
        THEN [ok |-> TRUE,
              val |-> Fin(IF signed /\ s[1] = "-" THEN -n ELSE n, Pow10(fracLen))]
        ELSE [ok |-> FALSE, val |-> Fin(0, 1)]

\* err == nil is ok = TRUE
ParseFloat(s) ==
    IF Special(s).ok THEN Special(s) ELSE ReadFloat(s)

(***************************************************************************)
(* Fixed-point formatting: fmt's %.<prec>f and                             *)
(* strconv.FormatFloat(f, 'f', prec, 64).                                  *)
(***************************************************************************)
RECURSIVE PadDigits(_, _)
PadDigits(n, width) ==
    IF width = 0 THEN ""
    ELSE PadDigits(n \div 10, width - 1) \o ToString(n % 10)

\* |num|/den scaled by 10^prec and rounded to nearest, ties to even
RoundScaled(f, prec) ==
    LET whole == Abs(f.num) \div f.den
        a == (Abs(f.num) % f.den) * Pow10(prec)
        q == whole * Pow10(prec) + a \div f.den
        r == a % f.den
    IN  IF 2 * r > f.den \/ (2 * r = f.den /\ q % 2 = 1) THEN q + 1 ELSE q

FormatFixed(f, prec) ==
    CASE f.kind = "nan"  -> "NaN"
      [] f.kind = "pinf" -> "+Inf"
      [] f.kind = "ninf" -> "-Inf"
      [] OTHER ->
            LET m == RoundScaled(f, prec)
            IN  (IF f.num < 0 THEN "-" ELSE "")
                \o ToString(m \div Pow10(prec))
                \o (IF prec > 0 THEN "." \o PadDigits(m % Pow10(prec), prec) ELSE "")

(***************************************************************************)
(* Bounds and input sets                                                   *)
(***************************************************************************)
\* longest station list an upstream response carries
MaxStations == 2

Methods == {"GET", "POST"}

\* values of the latitude query parameter ("" when absent)
LatInputs ==
    { <<>>,
      <<"a", "b", "c">>,
      <<"9", "1">>,
      <<"-", "9", "1">>,
      <<"9", "0">>,
      <<"-", "9", "0">>,
      <<"3", "8", ".", "9", "7", "2", "8">>,
      <<"N", "a", "N">>,
      <<"I", "n", "f">>,
      <<"-", "I", "n", "f">> }

\* values of the longitude query parameter ("" when absent)
LonInputs ==
    { <<>>,
      <<"1", ".", "2", ".", "3">>,
      <<"1", "8", "1">>,
      <<"-", "2", "0", "0">>,
      <<"1", "8", "0">>,
      <<"-", "9", "4", ".", "7", "1", "2">>,
      <<"n", "a", "n">>,
      <<"0">> }

\* what the network does with one GET: a transport failure or a status code
NetOutcomes ==
    {[fail |-> TRUE, status |-> 0]}
    \cup {[fail |-> FALSE, status |-> c] : c \in {200, 404, 503}}

\* URLs that http.NewRequest rejects (invalid escape)
BadURLs == {"%zz"}

\* URLs that client.Do cannot send (no scheme)
NoSchemeURLs == {""}

GridIds == {"EAX", ""}

StationsURLs ==
    {"https://api.weather.gov/gridpoints/EAX/37,65/stations", "%zz", ""}

StationIds == {"KIXD", "KMCI"}

\* a JSON null (or absent) temperature value: the nil *float64
Null == [kind |-> "null", num |-> 0, den |-> 1]

\* temperature.value in degrees Celsius
TempValues ==
    { Null, Fin(-40, 1), Fin(-178, 10), Fin(0, 1), Fin(99, 10), Fin(10, 1),
      Fin(22, 1), Fin(215, 9), Fin(239, 10), Fin(100, 1) }

\* what json.Decode makes of the points body
PointsBodies ==
    {[ok |-> FALSE, gridId |-> "", observationStations |-> ""]}
    \cup {[ok |-> TRUE, gridId |-> g, observationStations |-> u] :
            g \in GridIds, u \in StationsURLs}

SeqsUpTo(S, n) == UNION {[1..k -> S] : k \in 0..n}

\* what json.Decode makes of the stations body
StationsBodies ==
    {[ok |-> FALSE, features |-> <<>>]}
    \cup {[ok |-> TRUE, features |-> f] : f \in SeqsUpTo(StationIds, MaxStations)}

\* what json.Decode makes of the observation body
ObservationBodies ==
    {[ok |-> FALSE, value |-> Null]}
    \cup {[ok |-> TRUE, value |-> v] : v \in TempValues}

(***************************************************************************)
(* httpclient.MakeRequest                                                  *)
(***************************************************************************)
\* A response body: closes counts the calls of Close on it, handed says
\* whether MakeRequest returned it to its caller.
Body(url, status, closes, handed) ==
    [url |-> url, status |-> status, closes |-> closes, handed |-> handed]

MakeRequest_NoClose(url, net) ==
    IF url \in BadURLs
    THEN [err |-> "failed to create request", made |-> <<>>]
    ELSE IF net.fail \/ url \in NoSchemeURLs
    THEN [err |-> "failed to make request", made |-> <<>>]
    ELSE IF net.status # 200
    THEN [err |-> "API returned status", made |-> <<Body(url, net.status, 0, FALSE)>>]
    ELSE [err |-> "", made |-> <<Body(url, net.status, 0, TRUE)>>]

\* err = "" is a nil error; made holds the response body the call created
\* (none when no response arrived)
MakeRequest(url, net) ==
    IF url \in BadURLs
    THEN [err |-> "failed to create request", made |-> <<>>]
    ELSE IF net.fail \/ url \in NoSchemeURLs
    THEN [err |-> "failed to make request", made |-> <<>>]
    ELSE IF net.status # 200
    THEN [err |-> "API returned status", made |-> <<Body(url, net.status, 1, FALSE)>>]
    ELSE [err |-> "", made |-> <<Body(url, net.status, 0, TRUE)>>]

\* the deferred Close calls of a returning function, on the bodies at the
\* indices ds
RunDefers(bs, ds) ==
    [i \in 1..Len(bs) |->
        [bs[i] EXCEPT !.closes = @ + Cardinality({j \in 1..Len(ds) : ds[j] = i})]]

(***************************************************************************)
(* package weather                                                         *)
(***************************************************************************)
userAgent == "example-project-weather-service/1.0 (contact: support@example.com)"

noaaBaseURL == "https://api.weather.gov"

\* the bytes the source appends to the formatted temperature:
\* C3 82 C2 B0 'F'
DegreeSuffix == <<195, 130, 194, 176, 70>>

NoTemp == [text |-> "", suffix |-> <<>>]

\* one upstream call as the orchestrator saw it
Call(step, url, ok, decoded) ==
    [step |-> step, url |-> url, ok |-> ok, decoded |-> decoded]

Failure(msg) == [status |-> "", temp |-> NoTemp, err |-> msg]

getGridpoint_SwallowError(latitude, longitude, net, dec) ==
    LET pointsURL == noaaBaseURL \o "/points/" \o FormatFixed(latitude, 4)
                     \o "," \o FormatFixed(longitude, 4)
        mr == MakeRequest(pointsURL, net)
    IN  [gridId |-> dec.gridId, observationStations |-> dec.observationStations,
         err |-> "",
         call |-> Call("points", pointsURL, mr.err = "", mr.err = "" /\ dec.ok),
         made |-> RunDefers(mr.made, IF mr.err = "" THEN <<1>> ELSE <<>>)]

\* getGridpoint returns before the next call: its deferred body.Close() has
\* run on the body it was handed
getGridpoint(latitude, longitude, net, dec) ==
    LET pointsURL == noaaBaseURL \o "/points/" \o FormatFixed(latitude, 4)
                     \o "," \o FormatFixed(longitude, 4)
        mr == MakeRequest(pointsURL, net)
    IN  IF mr.err # ""
        THEN [gridId |-> "", observationStations |-> "",
              err |-> "failed to get gridpoint from NOAA points API",
              call |-> Call("points", pointsURL, FALSE, FALSE),
              made |-> mr.made]
        ELSE IF ~dec.ok
        THEN [gridId |-> "", observationStations |-> "",
              err |-> "failed to decode NOAA points API response",
              call |-> Call("points", pointsURL, TRUE, FALSE),
              made |-> RunDefers(mr.made, <<1>>)]
        ELSE [gridId |-> dec.gridId, observationStations |-> dec.observationStations,
              err |-> "",
              call |-> Call("points", pointsURL, TRUE, TRUE),
              made |-> RunDefers(mr.made, <<1>>)]

determineStatus_Inclusive(tempF) ==
    IF ~FLt(tempF, Fin(75, 1)) THEN "hot"
    ELSE IF FLt(tempF, Fin(50, 1)) THEN "cold"
    ELSE "moderate"

determineStatus(tempF) ==
    IF FGt(tempF, Fin(75, 1)) THEN "hot"
    ELSE IF FLt(tempF, Fin(50, 1)) THEN "cold"
    ELSE "moderate"

CelsiusToFahrenheit_NoOffset(tempC) ==
    FDiv(FMul(tempC, Fin(9, 1)), Fin(5, 1))

\* tempF := (tempC * 9.0 / 5.0) + 32.0
CelsiusToFahrenheit(tempC) ==
    FAdd(FDiv(FMul(tempC, Fin(9, 1)), Fin(5, 1)), Fin(32, 1))

StationsList_Last(features) ==
    IF Len(features) = 0
    THEN [err |-> "no observation stations available", stationId |-> ""]
    ELSE [err |-> "", stationId |-> features[Len(features)]]

\* the empty-list check and the choice of the station
StationsList(features) ==
    IF Len(features) = 0
    THEN [err |-> "no observation stations available", stationId |-> ""]
    ELSE [err |-> "", stationId |-> features[1]]

Observation_DefaultZero(value) ==
    LET tempC == IF value = Null THEN Fin(0, 1) ELSE value
        tempF == CelsiusToFahrenheit(tempC)
    IN  [status |-> determineStatus(tempF),
         temp |-> [text |-> FormatFixed(tempF, 1), suffix |-> DegreeSuffix],
         err |-> ""]

\* the nil check, the conversion, the classification and the formatting
Observation(value) ==
    IF value = Null
    THEN Failure("temperature data not available from NOAA observations")
    ELSE LET tempC == value
             tempF == CelsiusToFahrenheit(tempC)
         IN  [status |-> determineStatus(tempF),
              temp |-> [text |-> FormatFixed(tempF, 1), suffix |-> DegreeSuffix],
              err |-> ""]

(***************************************************************************)
(* package api                                                             *)
(***************************************************************************)
Reject(code, text) ==
    [code |-> code, text |-> text, latitude |-> NaN, longitude |-> NaN]

Validate_NoRange(method, latStr, lonStr) ==
    LET lat == ParseFloat(latStr)
        lon == ParseFloat(lonStr)
    IN  IF method # "GET" THEN Reject(405, "Method not allowed")
        ELSE IF latStr = <<>> \/ lonStr = <<>>
        THEN Reject(400, "latitude and longitude query parameters are required")
        ELSE IF ~lat.ok THEN Reject(400, "invalid latitude parameter")
        ELSE IF ~lon.ok THEN Reject(400, "invalid longitude parameter")
        ELSE [code |-> 0, text |-> "", latitude |-> lat.val, longitude |-> lon.val]

Validate_LongitudeFirst(method, latStr, lonStr) ==
    LET lat == ParseFloat(latStr)
        lon == ParseFloat(lonStr)
    IN  IF method # "GET" THEN Reject(405, "Method not allowed")
        ELSE IF latStr = <<>> \/ lonStr = <<>>
        THEN Reject(400, "latitude and longitude query parameters are required")
        ELSE IF ~lat.ok THEN Reject(400, "invalid latitude parameter")
        ELSE IF ~lon.ok THEN Reject(400, "invalid longitude parameter")
        ELSE IF FLt(lon.val, Fin(-180, 1)) \/ FGt(lon.val, Fin(180, 1))
        THEN Reject(400, "longitude must be between -180 and 180")
        ELSE IF FLt(lat.val, Fin(-90, 1)) \/ FGt(lat.val, Fin(90, 1))
        THEN Reject(400, "latitude must be between -90 and 90")
        ELSE [code |-> 0, text |-> "", latitude |-> lat.val, longitude |-> lon.val]

\* the checks of WeatherHandler before it calls the orchestrator; code 0
\* means that every check passed
Validate(method, latStr, lonStr) ==
    LET lat == ParseFloat(latStr)
        lon == ParseFloat(lonStr)
    IN  IF method # "GET" THEN Reject(405, "Method not allowed")
        ELSE IF latStr = <<>> \/ lonStr = <<>>
        THEN Reject(400, "latitude and longitude query parameters are required")
        ELSE IF ~lat.ok THEN Reject(400, "invalid latitude parameter")
        ELSE IF ~lon.ok THEN Reject(400, "invalid longitude parameter")
        ELSE IF FLt(lat.val, Fin(-90, 1)) \/ FGt(lat.val, Fin(90, 1))
        THEN Reject(400, "latitude must be between -90 and 90")
        ELSE IF FLt(lon.val, Fin(-180, 1)) \/ FGt(lon.val, Fin(180, 1))
        THEN Reject(400, "longitude must be between -180 and 180")
        ELSE [code |-> 0, text |-> "", latitude |-> lat.val, longitude |-> lon.val]

Respond_ExposeCause(res) ==
    IF res.err # ""
    THEN [code |-> 500, text |-> res.err, status |-> "", temp |-> NoTemp]
    ELSE [code |-> 200, text |-> "", status |-> res.status, temp |-> res.temp]

\* what WeatherHandler writes once the orchestrator has returned
Respond(res) ==
    IF res.err # ""
    THEN [code |-> 500, text |-> "Failed to fetch weather data",
          status |-> "", temp |-> NoTemp]
    ELSE [code |-> 200, text |-> "", status |-> res.status, temp |-> res.temp]

(***************************************************************************)
(* State                                                                   *)
(***************************************************************************)
VARIABLES
    pc,       \* where the handler is: idle, blocked in a GET, or responded
    req,      \* the request being handled
    resp,     \* the response written
    invoked,  \* the arguments of each call of GetWeatherFromNOAA
    calls,    \* the MakeRequest calls of this request, in order
    bodies,   \* the response bodies created for this request
    defers,   \* bodies whose Close is deferred in GetWeatherFromNOAA
    frame,    \* the orchestrator's local variables
    result    \* what GetWeatherFromNOAA returned

vars == <<pc, req, resp, invoked, calls, bodies, defers, frame, result>>

NoReq == [method |-> "", latitude |-> <<>>, longitude |-> <<>>]

NoResp == [code |-> 0, text |-> "", status |-> "", temp |-> NoTemp]

NoFrame ==
    [gridId |-> "", observationStationsURL |-> "", features |-> <<>>,
     stationId |-> "", value |-> Null]

NoResult == [status |-> "", temp |-> NoTemp, err |-> "", returned |-> FALSE]

Returned(res) ==
    [status |-> res.status, temp |-> res.temp, err |-> res.err, returned |-> TRUE]

Init ==
    /\ pc = "idle"
    /\ req = NoReq
    /\ resp = NoResp
    /\ invoked = <<>>
    /\ calls = <<>>
    /\ bodies = <<>>
    /\ defers = <<>>
    /\ frame = NoFrame
    /\ result = NoResult

\* GetWeatherFromNOAA returns res: its deferred closes run, and the handler
\* writes the response
Return(res, cs, bs, ds, fr) ==
    /\ result' = Returned(res)
    /\ resp' = Respond(res)
    /\ calls' = cs
    /\ bodies' = RunDefers(bs, ds)
    /\ defers' = <<>>
    /\ frame' = fr
    /\ pc' = "responded"
    /\ UNCHANGED <<req, invoked>>

\* a request arrives; the handler runs up to its response or to the first GET
WeatherHandler ==
    /\ pc \in {"idle", "responded"}
    /\ \E method \in Methods, latStr \in LatInputs, lonStr \in LonInputs :
        LET v == Validate(method, latStr, lonStr)
        IN  /\ req' = [method |-> method, latitude |-> latStr, longitude |-> lonStr]
            /\ calls' = <<>>
            /\ bodies' = <<>>
            /\ defers' = <<>>
            /\ frame' = NoFrame
            /\ result' = NoResult
            /\ IF v.code # 0
               THEN /\ resp' = [code |-> v.code, text |-> v.text,
                                status |-> "", temp |-> NoTemp]
                    /\ invoked' = <<>>
                    /\ pc' = "responded"
               ELSE /\ resp' = NoResp
                    /\ invoked' = <<[latitude |-> v.latitude,
                                     longitude |-> v.longitude]>>
                    /\ pc' = "points"

\* step 1: the points GET completes
GetGridpoint ==
    /\ pc = "points"
    /\ \E net \in NetOutcomes, dec \in PointsBodies :
        LET g == getGridpoint(invoked[1].latitude, invoked[1].longitude, net, dec)
            cs == Append(calls, g.call)
            bs == bodies \o g.made
            fr == [frame EXCEPT !.gridId = g.gridId,
                                !.observationStationsURL = g.observationStations]
        IN  IF g.err # ""
            THEN Return(Failure(g.err), cs, bs, defers, frame)
            ELSE /\ calls' = cs
                 /\ bodies' = bs
                 /\ frame' = fr
                 /\ pc' = "stations"
                 /\ UNCHANGED <<req, resp, invoked, defers, result>>

\* step 2: the stations GET completes
GetStations ==
    /\ pc = "stations"
    /\ \E net \in NetOutcomes, dec \in StationsBodies :
        LET url == frame.observationStationsURL
            mr == MakeRequest(url, net)
            bs == bodies \o mr.made
            ds == IF mr.err = "" THEN Append(defers, Len(bs)) ELSE defers
            st == StationsList(dec.features)
        IN  IF mr.err # ""
            THEN Return(Failure("failed to get observation stations"),
                        Append(calls, Call("stations", url, FALSE, FALSE)),
                        bs, ds, frame)
            ELSE IF ~dec.ok
            THEN Return(Failure("failed to decode stations response"),
                        Append(calls, Call("stations", url, TRUE, FALSE)),
                        bs, ds, frame)
            ELSE IF st.err # ""
            THEN Return(Failure(st.err),
                        Append(calls, Call("stations", url, TRUE, TRUE)),
                        bs, ds, [frame EXCEPT !.features = dec.features])
            ELSE /\ calls' = Append(calls, Call("stations", url, TRUE, TRUE))
                 /\ bodies' = bs
                 /\ defers' = ds
                 /\ frame' = [frame EXCEPT !.features = dec.features,
                                           !.stationId = st.stationId]
                 /\ pc' = "observation"
                 /\ UNCHANGED <<req, resp, invoked, result>>

\* step 3: the latest-observation GET completes
GetObservation ==
    /\ pc = "observation"
    /\ \E net \in NetOutcomes, dec \in ObservationBodies :
        LET url == noaaBaseURL \o "/stations/" \o frame.stationId
                   \o "/observations/latest"
            mr == MakeRequest(url, net)
            bs == bodies \o mr.made
            ds == IF mr.err = "" THEN Append(defers, Len(bs)) ELSE defers
        IN  IF mr.err # ""
            THEN Return(Failure("failed to get current observations from NOAA"),
                        Append(calls, Call("observation", url, FALSE, FALSE)),
                        bs, ds, frame)
            ELSE IF ~dec.ok
            THEN Return(Failure("failed to decode NOAA observations response"),
                        Append(calls, Call("observation", url, TRUE, FALSE)),
                        bs, ds, frame)
            ELSE Return(Observation(dec.value),
                        Append(calls, Call("observation", url, TRUE, TRUE)),
                        bs, ds, [frame EXCEPT !.value = dec.value])

Next ==
    \/ WeatherHandler
    \/ GetGridpoint
    \/ GetStations
    \/ GetObservation

Spec == Init /\ [][Next]_vars

(***************************************************************************)
(* Properties                                                              *)
(***************************************************************************)
StepOrder == <<"points", "stations", "observation">>

Completed(i) == Len(calls) >= i /\ calls[i].ok /\ calls[i].decoded

\* C1: the upstream calls of a request are made in the order points,
\* stations, latest observation, each step at most once; a call is made only
\* after every earlier call succeeded and decoded; a call that failed in
\* transport or in decoding is the last one, and the orchestrator has then
\* returned an error with empty status and temperature.
C1_SequentialGatedCalls ==
    /\ Len(calls) <= Len(StepOrder)
    /\ \A i \in 1..Len(calls) : calls[i].step = StepOrder[i]
    /\ \A i \in 2..Len(calls) : calls[i - 1].ok /\ calls[i - 1].decoded
    /\ \A i \in 1..Len(calls) :
          ~(calls[i].ok /\ calls[i].decoded) =>
              /\ i = Len(calls)
              /\ pc = "responded"
              /\ result.returned
              /\ result.err # ""
              /\ result.status = ""
              /\ result.temp = NoTemp

\* C1 witness: the third call was made and failed to decode.
C1_Witness ==
    /\ Len(calls) = 3
    /\ calls[3].ok
    /\ ~calls[3].decoded
    /\ result.err = "failed to decode NOAA observations response"

\* v is a number (or an infinity) below lo or above hi; NaN is neither
Outside(v, lo, hi) ==
    \/ v.kind = "pinf"
    \/ v.kind = "ninf"
    \/ v.kind = "fin" /\ (v.num < lo * v.den \/ v.num > hi * v.den)

\* lo <= v <= hi
Within(v, lo, hi) ==
    v.kind = "fin" /\ lo * v.den <= v.num /\ v.num <= hi * v.den

Missing(r) == r.latitude = <<>> \/ r.longitude = <<>>

BadParameters(r) ==
    \/ Missing(r)
    \/ ~ParseFloat(r.latitude).ok
    \/ ~ParseFloat(r.longitude).ok
    \/ Outside(ParseFloat(r.latitude).val, -90, 90)
    \/ Outside(ParseFloat(r.longitude).val, -180, 180)

C3_InvokedInRange ==
    \A i \in 1..Len(invoked) :
        /\ Within(invoked[i].latitude, -90, 90)
        /\ Within(invoked[i].longitude, -180, 180)

\* C4: the response to a rejected request is that of the first failing
\* check, in the order method, presence of both parameters, latitude parse,
\* longitude parse, latitude range, longitude range.
C4_CheckPrecedence ==
    LET lat == ParseFloat(req.latitude)
        lon == ParseFloat(req.longitude)
        answered(code, text) ==
            /\ pc = "responded"
            /\ resp = [code |-> code, text |-> text, status |-> "", temp |-> NoTemp]
            /\ invoked = <<>>
    IN  pc # "idle" =>
          IF req.method # "GET"
          THEN answered(405, "Method not allowed")
          ELSE IF Missing(req)
          THEN answered(400, "latitude and longitude query parameters are required")
          ELSE IF ~lat.ok
          THEN answered(400, "invalid latitude parameter")
          ELSE IF ~lon.ok
          THEN answered(400, "invalid longitude parameter")
          ELSE IF Outside(lat.val, -90, 90)
          THEN answered(400, "latitude must be between -90 and 90")
          ELSE IF Outside(lon.val, -180, 180)
          THEN answered(400, "longitude must be between -180 and 180")
          ELSE invoked # <<>>

\* C4 witness: both coordinates out of range, answered with the latitude
\* message.
C4_Witness ==
    /\ pc = "responded"
    /\ req.method = "GET"
    /\ req.latitude = <<"9", "1">>
    /\ req.longitude = <<"1", "8", "1">>
    /\ resp.text = "latitude must be between -90 and 90"

\* C5: once the stations call has succeeded and decoded, an empty station
\* list ends the request with "no observation stations available" and no
\* third call; otherwise the third call asks for features[0].
C5_FirstStationOrNone ==
    Completed(2) =>
        IF frame.features = <<>>
        THEN /\ pc = "responded"
             /\ Len(calls) = 2
             /\ result.err = "no observation stations available"
        ELSE /\ frame.stationId = frame.features[1]
             /\ Len(calls) = 3 =>
                    calls[3].url = "https://api.weather.gov/stations/"
                                   \o frame.features[1] \o "/observations/latest"

\* C5 witness: two different stations were listed and the third call made.
C5_Witness ==
    /\ Len(calls) = 3
    /\ Len(frame.features) = 2
    /\ frame.features[1] # frame.features[2]

\* C6: a null temperature value makes GetWeatherFromNOAA return
\* "temperature data not available ..." and no result, while a value of 0 C
\* succeeds with 32.0 and status cold.
C6_NullTemperatureIsError ==
    Completed(3) =>
        /\ frame.value = Null =>
              /\ result.err = "temperature data not available from NOAA observations"
              /\ result.status = ""
              /\ result.temp = NoTemp
              /\ resp.code = 500
        /\ frame.value = Fin(0, 1) =>
              /\ result.err = ""
              /\ result.status = "cold"
              /\ result.temp.text = "32.0"
              /\ resp.code = 200

\* C6 witness: the observation decoded with a null temperature.
C6_Witness ==
    /\ Completed(3)
    /\ frame.value = Null
    /\ pc = "responded"

Succeeded == result.returned /\ result.err = ""

\* C7: on success the status is hot iff tempC*9/5+32 > 75, cold iff it is
\* < 50 and moderate otherwise (for tempC = n/d: 9n > 215d, 9n < 90d).
C7_StatusClassification ==
    Succeeded =>
        LET n == frame.value.num
            d == frame.value.den
        IN  /\ frame.value.kind = "fin"
            /\ result.status \in {"hot", "cold", "moderate"}
            /\ result.status = "hot" <=> 9 * n > 215 * d
            /\ result.status = "cold" <=> 9 * n < 90 * d
            /\ result.status = "moderate" <=> (90 * d <= 9 * n /\ 9 * n <= 215 * d)

\* C7 witness: a reading of exactly 75.0 F was classified moderate.
C7_Witness ==
    /\ Succeeded
    /\ frame.value = Fin(215, 9)
    /\ result.temp.text = "75.0"
    /\ result.status = "moderate"

\* the end-to-end example: (38.9728, -94.712), gridId EAX, the one station
\* KIXD, 22.0 C
C8_Scenario ==
    /\ pc = "responded"
    /\ req = [method |-> "GET",
              latitude |-> <<"3", "8", ".", "9", "7", "2", "8">>,
              longitude |-> <<"-", "9", "4", ".", "7", "1", "2">>]
    /\ Completed(1) /\ Completed(2) /\ Completed(3)
    /\ calls[1].url = "https://api.weather.gov/points/38.9728,-94.7120"
    /\ frame.gridId = "EAX"
    /\ frame.features = <<"KIXD">>
    /\ frame.value = Fin(22, 1)

C9_ResponseFromOutcome ==
    /\ (pc = "responded" /\ invoked # <<>>) => result.returned
    /\ result.returned =>
          IF result.err # ""
          THEN /\ result.status = ""
               /\ result.temp = NoTemp
               /\ resp = [code |-> 500, text |-> "Failed to fetch weather data",
                          status |-> "", temp |-> NoTemp]
          ELSE /\ result.status \in {"hot", "cold", "moderate"}
               /\ resp = [code |-> 200, text |-> "",
                          status |-> result.status, temp |-> result.temp]

\* C9 witness: an empty station list was answered with the generic 500.
C9_Witness ==
    /\ result.returned
    /\ result.err = "no observation stations available"
    /\ resp.code = 500

\* C10: no body is closed twice; a body of a non-200 response is closed by
\* MakeRequest and not handed back; getGridpoint's body is closed when
\* getGridpoint has returned; when the request is answered every body has
\* been closed exactly once.
C10_BodiesClosedOnce ==
    /\ \A i \in 1..Len(bodies) :
          /\ bodies[i].closes <= 1
          /\ bodies[i].handed <=> bodies[i].status = 200
          /\ ~bodies[i].handed => bodies[i].closes = 1
    /\ pc \in {"stations", "observation"} => bodies[1].closes = 1
    /\ pc = "responded" => \A i \in 1..Len(bodies) : bodies[i].closes = 1

\* C10 witness: two bodies were handed back, the third response was a 503
\* closed inside MakeRequest, and the request is answered.
C10_Witness ==
    /\ pc = "responded"
    /\ Len(bodies) = 3
    /\ bodies[3].status = 503
    /\ bodies[1].handed /\ bodies[2].handed

====
